---- MODULE Spec2Model ----
(***************************************************************************)
(* A model of the directory-listing compare tool (src/compare.py) and of   *)
(* the progress bar it drives (src/tools.py).                              *)
(*                                                                         *)
(* A Python str is a sequence of one-character strings, so that slicing,   *)
(* stripping, splitting and case folding are computed, not assumed.  A     *)
(* dict is the sequence of its (key, value) items in insertion order.      *)
(* os.path is posixpath (sep = "/").                                       *)
(***************************************************************************)
EXTENDS Integers, Sequences, FiniteSets, TLC

VARIABLES
    pc,               \* position of the running call
    cls_base_path,    \* PathParser._base_path, the class attribute
    base_path,        \* path_parser._base_path, the instance attribute
    call_path,        \* argument of the latest PathParser.parse call
    call_ret,         \* value the latest PathParser.parse call returned
    first_path,       \* argument of the first PathParser.parse call of the instance
    ncalls,           \* PathParser.parse calls made on the instance
    files_lines,      \* Comparer.compare: the line lists read from the input files
    i,                \* Comparer.compare: index of the file being parsed
    lines,            \* Comparer.parse: its argument
    pos,              \* Comparer.parse: index of the next line of the for loop
    folder_path,      \* Comparer.parse: local folder_path
    file_content,     \* Comparer.parse: local file_content
    files_contents,   \* Comparer.compare: the parsed listings
    error,            \* the exception that ended the run, or NoError
    left,             \* find_mismatched_left: argument left
    right,            \* find_mismatched_left: argument right
    li,               \* find_mismatched_left: index of left_key in left.keys()
    ri,               \* find_mismatched_left: index of right_key in right.keys()
    mismatched,       \* find_mismatched_left: local mismatched
    matched_pairs,    \* find_mismatched_left: the (li, ri) whose if branch ran
    pb_increment,     \* progress_bar._increment
    parsed,           \* value Comparer.parse returned
    result,           \* value find_mismatched_left returned
    left_mismatched,  \* Comparer.compare: local left_mismatched
    right_mismatched, \* Comparer.compare: local right_mismatched
    written,          \* report files written so far, in order
    comparer_paths,   \* Comparer.paths, the class attribute
    comparers,        \* the Comparer constructions so far, in order
    compare_self,     \* index in comparers of the instance compare() last ran on
    compare_read,     \* Comparer.compare: the paths given to read_files
    compare_names     \* Comparer.compare: the paths the two reports are named after

vars == <<pc, cls_base_path, base_path, call_path, call_ret, first_path, ncalls,
          files_lines, i, lines, pos, folder_path, file_content, files_contents,
          error, left, right, li, ri, mismatched, matched_pairs, pb_increment, parsed,
          result,
          left_mismatched, right_mismatched, written,
          comparer_paths, comparers, compare_self, compare_read, compare_names>>

pathVars == <<cls_base_path, base_path, call_path, call_ret, first_path, ncalls>>
parseVars == <<lines, pos, folder_path, file_content, parsed>>
diffVars == <<left, right, li, ri, mismatched, matched_pairs, pb_increment, result>>
compareVars == <<files_lines, i, files_contents, left_mismatched, right_mismatched, written>>
ctorVars == <<comparer_paths, comparers, compare_self, compare_read, compare_names>>

-----------------------------------------------------------------------------
(* Python values *)

None == <<"None">>        \* Python's None; no str, since "None" is no character
Unset == <<"unset">>      \* an attribute the instance __dict__ does not hold
NoError == "none"

(* str operations *)

Min(a, b) == IF a < b THEN a ELSE b

\* s[n:]
Drop(s, n) == SubSeq(s, Min(n, Len(s)) + 1, Len(s))

\* s[:n]
Take(s, n) == SubSeq(s, 1, Min(n, Len(s)))

\* s.startswith(p)
StartsWith(s, p) == Len(p) <= Len(s) /\ Take(s, Len(p)) = p

\* s.endswith(p)
EndsWith(s, p) == Len(p) <= Len(s) /\ Drop(s, Len(s) - Len(p)) = p

\* str.isspace of one character
IsSpace(c) == c \in {" ", "\t", "\n"}

RECURSIVE RStripSpace(_)
\* s.rstrip()
RStripSpace(s) ==
    IF s # <<>> /\ IsSpace(s[Len(s)]) THEN RStripSpace(Take(s, Len(s) - 1)) ELSE s

RECURSIVE RStripCh(_, _)
\* s.rstrip(c): every trailing c goes
RStripCh(s, c) ==
    IF s # <<>> /\ s[Len(s)] = c THEN RStripCh(Take(s, Len(s) - 1), c) ELSE s

RECURSIVE LStripCh(_, _)
\* s.lstrip(c): every leading c goes
LStripCh(s, c) ==
    IF s # <<>> /\ s[1] = c THEN LStripCh(Drop(s, 1), c) ELSE s

\* s.rfind(c) + 1: the index (from 1) of the last c, 0 when there is none
RFind1(s, c) ==
    LET hits == {k \in 1..Len(s) : s[k] = c}
    IN  IF hits = {} THEN 0 ELSE CHOOSE k \in hits : \A m \in hits : m <= k

\* s.split(' ')[-1]
SplitLast(s) == Drop(s, RFind1(s, " "))

\* str.lower of one character, for the capitals the inputs hold
LowerCh(c) ==
    CASE c = "A" -> "a"
      [] c = "B" -> "b"
      [] c = "S" -> "s"
      [] c = "X" -> "x"
      [] OTHER -> c

\* s.lower()
Lower(s) == [k \in 1..Len(s) |-> LowerCh(s[k])]

\* posixpath.split(p)[0]
SplitHead(p) ==
    LET head == Take(p, RFind1(p, "/"))
    IN  IF head # <<>> /\ LStripCh(head, "/") # <<>> THEN RStripCh(head, "/") ELSE head

\* sep.join(split(path)[:-1]): the one-element join is the head itself
JoinAllButLast(p) == SplitHead(p)

-----------------------------------------------------------------------------
(* PathParser *)

\* self._base_path as an attribute read: the instance's, else the class's
ReadBasePath(cls, inst) == IF inst = Unset THEN cls ELSE inst

\* PathParser.parse with `if not self._base_path` for `is None`
PathParserParseFalsy(cls, inst, path) ==
    LET seen == ReadBasePath(cls, inst)
        set  == IF seen = None \/ seen = <<>>
                THEN LStripCh(JoinAllButLast(path), "/") ELSE inst
        base == ReadBasePath(cls, set)
    IN  [cls |-> cls, inst |-> set, ret |-> Drop(path, Len(base) + 1)]

\* PathParser.parse with the base path stored on the class, PathParser._base_path = ...
PathParserParseOnClass(cls, inst, path) ==
    LET set  == IF ReadBasePath(cls, inst) = None
                THEN LStripCh(JoinAllButLast(path), "/") ELSE ReadBasePath(cls, inst)
    IN  [cls |-> set, inst |-> inst, ret |-> Drop(path, Len(set) + 1)]

\* PathParser.parse(path): the attributes after the call and the value returned
PathParserParse(cls, inst, path) ==
    LET set  == IF ReadBasePath(cls, inst) = None
                THEN LStripCh(JoinAllButLast(path), "/") ELSE inst
        base == ReadBasePath(cls, set)
    IN  [cls |-> cls, inst |-> set, ret |-> Drop(path, Len(base) + 1)]

-----------------------------------------------------------------------------
(* dict: the sequence of its items, in insertion order *)

\* list(d.keys())
Keys(d) == [k \in 1..Len(d) |-> d[k].key]

\* key in d.keys()
HasKey(d, key) == \E k \in 1..Len(d) : d[k].key = key

\* d[key], for a key of d
Get(d, key) == d[CHOOSE k \in 1..Len(d) : d[k].key = key].val

\* d[key] = val
SetItem(d, key, val) ==
    IF HasKey(d, key)
    THEN [k \in 1..Len(d) |-> IF d[k].key = key THEN [key |-> key, val |-> val] ELSE d[k]]
    ELSE Append(d, [key |-> key, val |-> val])

\* x in xs, for a list xs
InList(x, xs) == \E k \in 1..Len(xs) : xs[k] = x

-----------------------------------------------------------------------------
(* Comparer.parse *)

Total == <<"t", "o", "t", "a", "l">>

\* Comparer.does_line_start_or_end_with_strings
DoesLineStartOrEndWithStrings(line, start_strings, end_strings) ==
    \/ \E x \in start_strings : StartsWith(line, x)
    \/ \E x \in end_strings : EndsWith(line, x)

\* the if of the loop: a header line
IsHeaderLine(line) == DoesLineStartOrEndWithStrings(line, {<<".">>, <<"/">>}, {<<":">>})

\* the negated elif of the loop: a summary line
IsTotalLine(line) == DoesLineStartOrEndWithStrings(line, {Total}, {})

\* the argument Comparer.parse hands to path_parser.parse
HeaderPath(line) == RStripCh(RStripCh(line, "/"), ":")

\* file_name of an entry line
FileName(line) == SplitLast(RStripCh(LStripCh(line, "/"), "/"))

\* the header branch that registers the key again: the list collected so far is lost
RegisterFolderAlways(d, key) == SetItem(d, key, <<>>)

\* the header branch: if folder_path not in file_content.keys(): file_content[folder_path] = list()
RegisterFolder(d, key) == IF HasKey(d, key) THEN d ELSE SetItem(d, key, <<>>)

\* the entry branch appending to the first folder registered
AppendFileFirst(d, key, file_name) == SetItem(d, d[1].key, Append(d[1].val, file_name))

\* the entry branch: file_content[folder_path].append(file_name), for a key of d
AppendFile(d, key, file_name) == SetItem(d, key, Append(Get(d, key), file_name))

\* the loop body with file_content.setdefault(folder_path, list()).append(file_name):
\* an entry line ahead of every header is filed under the key '' and nothing is raised
ParseLineSetDefault(st, raw) ==
    LET line == RStripSpace(raw)
    IN  IF IsHeaderLine(line)
        THEN LET r == PathParserParse(st.cls, st.inst, HeaderPath(line))
             IN  [cls |-> r.cls, inst |-> r.inst, folder_path |-> r.ret,
                  file_content |-> RegisterFolder(st.file_content, r.ret),
                  error |-> st.error]
        ELSE IF ~IsTotalLine(line)
        THEN [st EXCEPT !.file_content =
                           AppendFile(RegisterFolder(st.file_content, st.folder_path),
                                      st.folder_path, FileName(line))]
        ELSE st

\* one pass of the for loop of Comparer.parse over the raw line, on the state
\* st = [cls, inst, folder_path, file_content, error]
ParseLine(st, raw) ==
    LET line == RStripSpace(raw)
    IN  IF IsHeaderLine(line)
        THEN LET r == PathParserParse(st.cls, st.inst, HeaderPath(line))
             IN  [cls |-> r.cls, inst |-> r.inst, folder_path |-> r.ret,
                  file_content |-> RegisterFolder(st.file_content, r.ret),
                  error |-> st.error]
        ELSE IF ~IsTotalLine(line)
        THEN IF HasKey(st.file_content, st.folder_path)
             THEN [st EXCEPT !.file_content =
                                AppendFile(st.file_content, st.folder_path, FileName(line))]
             ELSE [st EXCEPT !.error = "KeyError"]
        ELSE st

\* the locals of Comparer.parse before its loop, beside a new PathParser()
ParseStart(cls) ==
    [cls |-> cls, inst |-> Unset, folder_path |-> <<>>, file_content |-> <<>>,
     error |-> NoError]

RECURSIVE ParseFrom(_, _, _)
\* the loop of Comparer.parse from line k on; the exception ends it
ParseFrom(st, ls, k) ==
    IF k > Len(ls) \/ st.error # NoError THEN st ELSE ParseFrom(ParseLine(st, ls[k]), ls, k + 1)

\* Comparer.parse(ls) called on its own: the state it ends in
ParseAlone(ls) == ParseFrom(ParseStart(None), ls, 1)

-----------------------------------------------------------------------------
(* ProgressBar and Comparer.find_mismatched_left *)

\* the asserts of ProgressBar.__init__ on maximum and minimum: maximum > minimum
ProgressBarAccepts(maximum, minimum) == maximum > minimum

\* the if of the loops without the two lower() calls
KeysMatchCaseKept(left_key, right_key) ==
    LStripCh(left_key, "/") = LStripCh(right_key, "/")

\* the if of the loops: left_key.lstrip('/').lower() == right_key.lstrip('/').lower()
KeysMatch(left_key, right_key) ==
    Lower(LStripCh(left_key, "/")) = Lower(LStripCh(right_key, "/"))

\* the element appended to mismatched
MismatchedLine(left_key, left_filename) ==
    LStripCh(left_key, "/") \o <<"/">> \o LStripCh(left_filename, "/") \o <<"\n">>

RECURSIVE MissingFromDedup(_, _, _, _)
\* lines 216-218 over the distinct filenames only: a filename seen earlier in
\* left_filenames is skipped, as a set difference would
MissingFromDedup(left_key, left_filenames, right_filenames, k) ==
    IF k > Len(left_filenames) THEN <<>>
    ELSE (IF \/ InList(left_filenames[k], right_filenames)
             \/ InList(left_filenames[k], Take(left_filenames, k - 1))
          THEN <<>>
          ELSE <<MismatchedLine(left_key, left_filenames[k])>>)
         \o MissingFromDedup(left_key, left_filenames, right_filenames, k + 1)

RECURSIVE MissingFrom(_, _, _, _)
\* lines 216-218 from left_filenames[k] on: the lines appended for one matched pair
MissingFrom(left_key, left_filenames, right_filenames, k) ==
    IF k > Len(left_filenames) THEN <<>>
    ELSE (IF InList(left_filenames[k], right_filenames) THEN <<>>
          ELSE <<MismatchedLine(left_key, left_filenames[k])>>)
         \o MissingFrom(left_key, left_filenames, right_filenames, k + 1)

\* lines 216-218 run for every pair, the if of line 213 dropped
PairLinesUnguarded(l, r) == MissingFrom(l.key, l.val, r.val, 1)

\* lines 213-218 for one left_key and one right_key: the lines appended
PairLines(l, r) ==
    IF KeysMatch(l.key, r.key) THEN MissingFrom(l.key, l.val, r.val, 1) ELSE <<>>

-----------------------------------------------------------------------------
(* bounds and inputs *)

MaxPathLen == 3     \* PathParser called directly: characters of a path
MaxCalls == 2       \* PathParser called directly: calls on one instance
MaxLines == 4       \* Comparer.parse called directly: lines of the input
MaxFileLines == 2   \* Comparer.compare: lines of an input file
MaxComparers == 2   \* Comparer constructions of a run

PathAlphabet == {".", "/", "a"}

\* every str over the alphabet of at most n characters
Strs(alphabet, n) == UNION {[1..k -> alphabet] : k \in 0..n}

\* first headers of a listing: relative, absolute and with two leading separators
FirstHeaderPaths ==
    {<<".", "/", "a", "/", "b">>, <<"/", "a", "/", "b">>, <<"/", "/", "a", "/", "b">>}

PathSet == Strs(PathAlphabet, MaxPathLen) \cup FirstHeaderPaths

HeaderRA == <<".", "/", "r", "/", "a", ":", "\n">>        \* "./r/a:\n"
HeaderRB == <<".", "/", "r", "/", "b", ":", "\n">>        \* "./r/b:\n"
HeaderAbs == <<"/", "r", "/", "a", "\n">>                 \* "/r/a\n"
HeaderShort == <<".", "/", "b", ":", "\n">>               \* "./b:\n"
TotalLine == <<"t", "o", "t", "a", "l", " ", "2", "\n">>  \* "total 2\n"
EntryX == <<"x", "\n">>                                   \* "x\n"
EntryY == <<"-", " ", "y", "\n">>                         \* "- y\n"
BlankLine == <<"\n">>                                     \* "\n"

LinePool == {HeaderRA, HeaderRB, HeaderAbs, HeaderShort, TotalLine, EntryX, EntryY, BlankLine}

\* the lines the input files of Comparer.compare are made of
FileLinePool == {HeaderRA, HeaderRB, HeaderAbs, EntryX, EntryY}

\* every list of at most n elements of pool
Lists(pool, n) == UNION {[1..k -> pool] : k \in 0..n}

MaxDirs == 2        \* find_mismatched_left called directly: keys of a listing

\* the keys of the left and of the right listing: equal, equal but for case,
\* equal but for one or for two leading separators, and different
LeftKeyPool == {<<"A">>, <<"/", "/", "a">>, <<"b">>}
RightKeyPool == {<<"a">>, <<"A">>, <<"/", "a">>}

\* the filename lists of the left and of the right listing
LeftFileLists ==
    {<<>>, <<<<"x">>>>, <<<<"x">>, <<"x">>>>, <<<<"x">>, <<"y">>>>}
RightFileLists == {<<>>, <<<<"x">>>>}

\* the key lists of a dict: at most n keys of the pool, no key twice
KeyLists(pool, n) ==
    {ks \in Lists(pool, n) : \A a, b \in 1..Len(ks) : ks[a] = ks[b] => a = b}

\* every dict of at most n keys of the pool whose values are among file_lists
Listings(pool, n, file_lists) ==
    UNION {{[k \in 1..Len(ks) |-> [key |-> ks[k], val |-> vs[k]]] :
               vs \in [1..Len(ks) -> file_lists]} : ks \in KeyLists(pool, n)}

\* the listings of the end-to-end scenario, as read by readlines()
EndToEndLeftLines ==
    <<<<".", "/", "r", "o", "o", "t", "/", "s", "u", "b", "1", ":", "\n">>,
      <<"t", "o", "t", "a", "l", " ", "2", "\n">>,
      <<"x", ".", "t", "x", "t", "\n">>,
      <<"y", ".", "t", "x", "t", "\n">>,
      <<".", "/", "r", "o", "o", "t", "/", "s", "u", "b", "2", ":", "\n">>,
      <<"t", "o", "t", "a", "l", " ", "1", "\n">>,
      <<"z", ".", "t", "x", "t", "\n">>>>

EndToEndRightLines ==
    <<<<".", "/", "r", "o", "o", "t", "/", "s", "u", "b", "1", ":", "\n">>,
      <<"t", "o", "t", "a", "l", " ", "1", "\n">>,
      <<"x", ".", "t", "x", "t", "\n">>,
      <<".", "/", "r", "o", "o", "t", "/", "s", "u", "b", "3", ":", "\n">>,
      <<"t", "o", "t", "a", "l", " ", "1", "\n">>,
      <<"w", ".", "t", "x", "t", "\n">>>>

\* the two listings parsed
EndToEndLeft == ParseAlone(EndToEndLeftLines).file_content
EndToEndRight == ParseAlone(EndToEndRightLines).file_content

-----------------------------------------------------------------------------
(* the state before anything runs *)

PathIdle ==
    /\ cls_base_path = None
    /\ base_path = Unset
    /\ call_path = None
    /\ call_ret = None
    /\ first_path = None
    /\ ncalls = 0

ParseIdle ==
    /\ pos = 0
    /\ folder_path = <<>>
    /\ file_content = <<>>
    /\ parsed = None

DiffIdle ==
    /\ li = 0
    /\ ri = 0
    /\ mismatched = <<>>
    /\ matched_pairs = {}
    /\ pb_increment = 0
    /\ result = None

CompareIdle ==
    /\ files_lines = <<>>
    /\ i = 0
    /\ files_contents = <<>>
    /\ left_mismatched = None
    /\ right_mismatched = None
    /\ written = <<>>

\* no Comparer has been constructed
CtorIdle ==
    /\ comparer_paths = <<>>
    /\ comparers = <<>>
    /\ compare_self = 0
    /\ compare_read = <<>>
    /\ compare_names = <<>>

-----------------------------------------------------------------------------
(* PathParser, called directly *)

\* path_parser.parse(path) on the instance at hand
CallPathParser(path) ==
    LET r == PathParserParse(cls_base_path, base_path, path)
    IN  /\ cls_base_path' = r.cls
        /\ base_path' = r.inst
        /\ call_path' = path
        /\ call_ret' = r.ret
        /\ first_path' = IF ncalls = 0 THEN path ELSE first_path
        /\ ncalls' = ncalls + 1

PathCall ==
    /\ pc = "path"
    /\ ncalls < MaxCalls
    /\ \E path \in PathSet : CallPathParser(path)
    /\ UNCHANGED <<ctorVars, pc, error, parseVars, diffVars, compareVars>>

InitPath ==
    /\ pc = "path"
    /\ error = NoError
    /\ lines = <<>>
    /\ left = <<>>
    /\ right = <<>>
    /\ PathIdle /\ ParseIdle /\ DiffIdle /\ CompareIdle /\ CtorIdle

NextPath == PathCall

SpecPath == InitPath /\ [][NextPath]_vars

-----------------------------------------------------------------------------
(* Comparer.parse *)

\* the line the loop is at, right-trimmed
Line == RStripSpace(lines[pos])

\* the locals of Comparer.parse as ParseLine takes them
ParseState ==
    [cls |-> cls_base_path, inst |-> base_path, folder_path |-> folder_path,
     file_content |-> file_content, error |-> error]

\* the locals after this pass of the loop
ParseAssign(st) ==
    /\ folder_path' = st.folder_path
    /\ file_content' = st.file_content
    /\ error' = st.error

\* lines 188-193: the locals, and a new PathParser()
ParseCall ==
    /\ pc = "parse_call"
    /\ pc' = "parse_loop"
    /\ pos' = 1
    /\ folder_path' = <<>>
    /\ file_content' = <<>>
    /\ base_path' = Unset
    /\ call_path' = None
    /\ call_ret' = None
    /\ first_path' = None
    /\ ncalls' = 0
    /\ UNCHANGED <<ctorVars, cls_base_path, lines, parsed, error, diffVars, compareVars>>

\* lines 195-199: a header line
ParseHeader ==
    /\ pc = "parse_loop"
    /\ pos <= Len(lines)
    /\ IsHeaderLine(Line)
    /\ ParseAssign(ParseLine(ParseState, lines[pos]))
    /\ CallPathParser(HeaderPath(Line))
    /\ pos' = pos + 1
    /\ UNCHANGED <<ctorVars, pc, lines, parsed, diffVars, compareVars>>

\* lines 195-200: a line starting with total
ParseTotal ==
    /\ pc = "parse_loop"
    /\ pos <= Len(lines)
    /\ ~IsHeaderLine(Line)
    /\ IsTotalLine(Line)
    /\ ParseAssign(ParseLine(ParseState, lines[pos]))
    /\ pos' = pos + 1
    /\ UNCHANGED <<ctorVars, pc, lines, parsed, pathVars, diffVars, compareVars>>

\* lines 195-202: any other line, appended to file_content[folder_path]
ParseEntry ==
    /\ pc = "parse_loop"
    /\ pos <= Len(lines)
    /\ ~IsHeaderLine(Line)
    /\ ~IsTotalLine(Line)
    /\ ParseLine(ParseState, lines[pos]).error = NoError
    /\ ParseAssign(ParseLine(ParseState, lines[pos]))
    /\ pos' = pos + 1
    /\ UNCHANGED <<ctorVars, pc, lines, parsed, pathVars, diffVars, compareVars>>

\* lines 195-202: any other line, file_content[folder_path] raises KeyError
ParseEntryRaise ==
    /\ pc = "parse_loop"
    /\ pos <= Len(lines)
    /\ ~IsHeaderLine(Line)
    /\ ~IsTotalLine(Line)
    /\ ParseLine(ParseState, lines[pos]).error # NoError
    /\ ParseAssign(ParseLine(ParseState, lines[pos]))
    /\ pc' = "raised"
    /\ UNCHANGED <<ctorVars, pos, lines, parsed, pathVars, diffVars, compareVars>>

\* line 203: return file_content
ParseReturn ==
    /\ pc = "parse_loop"
    /\ pos > Len(lines)
    /\ parsed' = file_content
    /\ pc' = "parse_ret"
    /\ UNCHANGED <<ctorVars, pos, lines, folder_path, file_content, error, pathVars, diffVars,
                   compareVars>>

InitParse ==
    /\ pc = "parse_call"
    /\ error = NoError
    /\ lines \in Lists(LinePool, MaxLines)
    /\ left = <<>>
    /\ right = <<>>
    /\ PathIdle /\ ParseIdle /\ DiffIdle /\ CompareIdle /\ CtorIdle

NextParse ==
    \/ ParseCall
    \/ ParseHeader
    \/ ParseTotal
    \/ ParseEntry
    \/ ParseEntryRaise
    \/ ParseReturn

SpecParse == InitParse /\ [][NextParse]_vars

-----------------------------------------------------------------------------
(* Comparer.find_mismatched_left *)

\* lines 207-210: the progress bar takes len(left) * len(right) as its maximum
DiffCall ==
    /\ pc = "diff_call"
    /\ ProgressBarAccepts(Len(left) * Len(right), 0)
    /\ pc' = "diff_loop"
    /\ mismatched' = <<>>
    /\ matched_pairs' = {}
    /\ pb_increment' = 0
    /\ li' = 1
    /\ ri' = 1
    /\ UNCHANGED <<ctorVars, left, right, result, error, pathVars, parseVars, compareVars>>

\* lines 207-210: an assert of ProgressBar.__init__ fails
DiffCallRaise ==
    /\ pc = "diff_call"
    /\ ~ProgressBarAccepts(Len(left) * Len(right), 0)
    /\ pc' = "raised"
    /\ error' = "AssertionError"
    /\ mismatched' = <<>>
    /\ UNCHANGED <<ctorVars, left, right, li, ri, matched_pairs, pb_increment, result, pathVars,
                   parseVars, compareVars>>

\* the body of the inner loop with a break after the first match: a right key
\* that follows a matched one appends nothing for this left_key
DiffPairBreak ==
    /\ pc = "diff_loop"
    /\ li <= Len(left)
    /\ mismatched' = IF \E b \in 1..(ri - 1) : <<li, b>> \in matched_pairs
                     THEN mismatched
                     ELSE mismatched \o PairLines(left[li], right[ri])
    /\ matched_pairs' = IF KeysMatch(left[li].key, right[ri].key)
                        THEN matched_pairs \cup {<<li, ri>>} ELSE matched_pairs
    /\ pb_increment' = pb_increment + 1
    /\ IF ri < Len(right)
       THEN ri' = ri + 1 /\ li' = li
       ELSE ri' = 1 /\ li' = li + 1
    /\ UNCHANGED <<ctorVars, pc, left, right, result, error, pathVars, parseVars, compareVars>>

\* lines 211-219: the body of the inner loop for one left_key and one right_key
DiffPair ==
    /\ pc = "diff_loop"
    /\ li <= Len(left)
    /\ mismatched' = mismatched \o PairLines(left[li], right[ri])
    /\ matched_pairs' = IF KeysMatch(left[li].key, right[ri].key)
                        THEN matched_pairs \cup {<<li, ri>>} ELSE matched_pairs
    /\ pb_increment' = pb_increment + 1
    /\ IF ri < Len(right)
       THEN ri' = ri + 1 /\ li' = li
       ELSE ri' = 1 /\ li' = li + 1
    /\ UNCHANGED <<ctorVars, pc, left, right, result, error, pathVars, parseVars, compareVars>>

\* lines 220-222: progress_bar.finish() and return mismatched
DiffReturn ==
    /\ pc = "diff_loop"
    /\ li > Len(left)
    /\ pb_increment' = Len(left) * Len(right)
    /\ result' = mismatched
    /\ pc' = "diff_ret"
    /\ UNCHANGED <<ctorVars, left, right, li, ri, mismatched, matched_pairs, error, pathVars,
                   parseVars, compareVars>>

InitDiff ==
    /\ pc = "diff_call"
    /\ error = NoError
    /\ lines = <<>>
    /\ \/ /\ left \in Listings(LeftKeyPool, MaxDirs, LeftFileLists)
          /\ right \in Listings(RightKeyPool, MaxDirs, RightFileLists)
       \/ left = EndToEndLeft /\ right = EndToEndRight
       \/ left = EndToEndRight /\ right = EndToEndLeft
    /\ PathIdle /\ ParseIdle /\ DiffIdle /\ CompareIdle /\ CtorIdle

NextDiff ==
    \/ DiffCall
    \/ DiffCallRaise
    \/ DiffPair
    \/ DiffReturn

SpecDiff == InitDiff /\ [][NextDiff]_vars

-----------------------------------------------------------------------------
(* Comparer.compare *)

\* the contents the two input files may hold
FileContents ==
    Lists(FileLinePool, MaxFileLines) \cup {EndToEndLeftLines, EndToEndRightLines}

\* line 228: files_lines = self.read_files(self.paths), two files read
CompareRead ==
    /\ pc = "compare"
    /\ \E a \in FileContents, b \in FileContents : files_lines' = <<a, b>>
    /\ files_contents' = <<>>
    /\ i' = 1
    /\ pc' = "compare_parse"
    /\ UNCHANGED <<ctorVars, left_mismatched, right_mismatched, written, error, pathVars,
                   parseVars, diffVars>>

\* line 234: self.parse(files_lines[i]) is called
CompareParseCall ==
    /\ pc = "compare_parse"
    /\ i <= Len(files_lines)
    /\ lines' = files_lines[i]
    /\ pc' = "parse_call"
    /\ UNCHANGED <<ctorVars, pos, folder_path, file_content, parsed, error, pathVars, diffVars,
                   compareVars>>

\* lines 234-235: files_contents.append(...) of what the call returned
CompareParseAppend ==
    /\ pc = "parse_ret"
    /\ files_contents' = Append(files_contents, parsed)
    /\ i' = i + 1
    /\ pc' = "compare_parse"
    /\ UNCHANGED <<ctorVars, files_lines, left_mismatched, right_mismatched, written, error,
                   pathVars, parseVars, diffVars>>

\* line 238: find_mismatched_left(files_contents[0], files_contents[1]) is called
CompareLeftCall ==
    /\ pc = "compare_parse"
    /\ i > Len(files_lines)
    /\ left' = files_contents[1]
    /\ right' = files_contents[2]
    /\ pc' = "diff_call"
    /\ UNCHANGED <<ctorVars, li, ri, mismatched, matched_pairs, pb_increment, result, error,
                   pathVars, parseVars, compareVars>>

\* the report of the first input file written as soon as left_mismatched is
\* assigned, before find_mismatched_left is called the second time
CompareRightCallWriting ==
    /\ pc = "diff_ret"
    /\ left_mismatched = None
    /\ left_mismatched' = result
    /\ written' = Append(written, [file |-> 1, content |-> result])
    /\ left' = files_contents[2]
    /\ right' = files_contents[1]
    /\ pc' = "diff_call"
    /\ UNCHANGED <<ctorVars, li, ri, mismatched, matched_pairs, pb_increment, result, error,
                   files_lines, i, files_contents, right_mismatched, pathVars,
                   parseVars>>

\* lines 238-239: left_mismatched is assigned, and
\* find_mismatched_left(files_contents[1], files_contents[0]) is called
CompareRightCall ==
    /\ pc = "diff_ret"
    /\ left_mismatched = None
    /\ left_mismatched' = result
    /\ left' = files_contents[2]
    /\ right' = files_contents[1]
    /\ pc' = "diff_call"
    /\ UNCHANGED <<ctorVars, li, ri, mismatched, matched_pairs, pb_increment, result, error,
                   files_lines, i, files_contents, right_mismatched, written, pathVars,
                   parseVars>>

\* line 239: right_mismatched is assigned
CompareRightDone ==
    /\ pc = "diff_ret"
    /\ left_mismatched # None
    /\ right_mismatched' = result
    /\ pc' = "write_left"
    /\ UNCHANGED <<ctorVars, files_lines, i, files_contents, left_mismatched, written, error,
                   pathVars, parseVars, diffVars>>

\* lines 242-244: the report of the first input file is written
CompareWriteLeft ==
    /\ pc = "write_left"
    /\ written' = Append(written, [file |-> 1, content |-> left_mismatched])
    /\ pc' = "write_right"
    /\ UNCHANGED <<ctorVars, files_lines, i, files_contents, left_mismatched, right_mismatched,
                   error, pathVars, parseVars, diffVars>>

\* lines 245-247: the report of the second input file is written
CompareWriteRight ==
    /\ pc = "write_right"
    /\ written' = Append(written, [file |-> 2, content |-> right_mismatched])
    /\ pc' = "done"
    /\ UNCHANGED <<ctorVars, files_lines, i, files_contents, left_mismatched, right_mismatched,
                   error, pathVars, parseVars, diffVars>>

Init ==
    /\ pc = "compare"
    /\ error = NoError
    /\ lines = <<>>
    /\ left = <<>>
    /\ right = <<>>
    /\ PathIdle /\ ParseIdle /\ DiffIdle /\ CompareIdle /\ CtorIdle

Next ==
    \/ CompareRead
    \/ CompareParseCall
    \/ ParseCall
    \/ ParseHeader
    \/ ParseTotal
    \/ ParseEntry
    \/ ParseEntryRaise
    \/ ParseReturn
    \/ CompareParseAppend
    \/ CompareLeftCall
    \/ DiffCall
    \/ DiffCallRaise
    \/ DiffPair
    \/ DiffReturn
    \/ CompareRightCall
    \/ CompareRightDone
    \/ CompareWriteLeft
    \/ CompareWriteRight

Spec == Init /\ [][Next]_vars

-----------------------------------------------------------------------------
(* Comparer.__init__, and the paths compare() works on *)

\* the file system: regular files, a directory, and a path that does not exist
FilePaths == {"l", "r", "m"}
DirPaths == {"d"}
MissingPaths == {"n"}
PathPool == FilePaths \cup DirPaths \cup MissingPaths

\* os.path.isdir
IsDir(f) == f \in DirPaths

\* os.path.isfile
IsFile(f) == f \in FilePaths

\* the paths argument of a construction: two paths, or a list of another length
CtorArgs == [1..2 -> PathPool] \cup {<<>>, <<"l">>, <<"l", "r", "m">>}

\* lines 124-142 on the list self.paths names, which is Comparer.paths: the
\* instance is given no paths attribute of its own. raise msg of a str is a
\* TypeError.
ComparerInitResult(cls_paths, paths) ==
    IF Len(paths) # 2
    THEN [paths |-> cls_paths, error |-> "TypeError"]
    ELSE LET keep(f) == ~IsDir(f) /\ IsFile(f)
         IN  [paths |-> cls_paths \o SelectSeq(paths, keep),
              error |-> IF \E k \in 1..Len(paths) : ~keep(paths[k])
                        THEN "TypeError" ELSE NoError]

\* Comparer(paths, dest) returns an instance
ComparerInit ==
    /\ pc = "ctor"
    /\ Len(comparers) < MaxComparers
    /\ \E paths \in CtorArgs :
           LET r == ComparerInitResult(comparer_paths, paths)
           IN  /\ r.error = NoError
               /\ comparer_paths' = r.paths
               /\ comparers' = Append(comparers, [args |-> paths, ok |-> TRUE])
    /\ UNCHANGED <<pc, error, compare_self, compare_read, compare_names, pathVars,
                   parseVars, diffVars, compareVars>>

\* Comparer(paths, dest) raises at line 128 or at line 142; the caller goes on
ComparerInitRaise ==
    /\ pc = "ctor"
    /\ Len(comparers) < MaxComparers
    /\ \E paths \in CtorArgs :
           LET r == ComparerInitResult(comparer_paths, paths)
           IN  /\ r.error # NoError
               /\ comparer_paths' = r.paths
               /\ comparers' = Append(comparers, [args |-> paths, ok |-> FALSE])
    /\ UNCHANGED <<pc, error, compare_self, compare_read, compare_names, pathVars,
                   parseVars, diffVars, compareVars>>

\* compare() on a constructed instance: self.paths, read at lines 228, 242 and
\* 245, is Comparer.paths as it is at the call
ComparerCompare ==
    /\ pc = "ctor"
    /\ \E k \in 1..Len(comparers) :
           /\ comparers[k].ok
           /\ compare_self' = k
    /\ compare_read' = comparer_paths
    /\ compare_names' = <<comparer_paths[1], comparer_paths[2]>>
    /\ UNCHANGED <<pc, error, comparer_paths, comparers, pathVars, parseVars, diffVars,
                   compareVars>>

InitCtor ==
    /\ pc = "ctor"
    /\ error = NoError
    /\ lines = <<>>
    /\ left = <<>>
    /\ right = <<>>
    /\ PathIdle /\ ParseIdle /\ DiffIdle /\ CompareIdle /\ CtorIdle

NextCtor ==
    \/ ComparerInit
    \/ ComparerInitRaise
    \/ ComparerCompare

SpecCtor == InitCtor /\ [][NextCtor]_vars

-----------------------------------------------------------------------------
(* PathParser: the base path of an instance *)

\* C7: within one PathParser instance the first call of parse sets the base
\* path, no later call changes it whatever path it receives, and every call,
\* the first included, returns its argument without its first
\* len(base path) + 1 characters.
C7_BasePathSetOnce ==
    [][/\ ncalls' > ncalls => base_path' \notin {Unset, None}
       /\ ncalls > 0 => base_path' = base_path
       /\ ncalls' > ncalls => call_ret' = Drop(call_path', Len(base_path') + 1)]_vars

\* a later call whose own path would give another base path has returned
C7_Witness ==
    /\ pc = "path"
    /\ ncalls >= 2
    /\ base_path # <<>>
    /\ LStripCh(SplitHead(call_path), "/") # base_path
    /\ call_ret # <<>>

-----------------------------------------------------------------------------
(* Comparer.parse: the lines of the input, read without running the loop *)

\* line k right-trimmed, as the loop sees it
Trimmed(ls, k) == RStripSpace(ls[k])

IsHeaderAt(ls, k) == IsHeaderLine(Trimmed(ls, k))

\* the loop's else branch takes line k: neither a header nor a total line
IsEntryAt(ls, k) == ~IsHeaderLine(Trimmed(ls, k)) /\ ~IsTotalLine(Trimmed(ls, k))

IsBlankAt(ls, k) == Trimmed(ls, k) = <<>>

\* the indexes of the header lines before line k
HeadersBefore(ls, k) == {h \in 1..(k - 1) : IsHeaderAt(ls, h)}

\* the greatest element of a non-empty set of numbers
Greatest(S) == CHOOSE x \in S : \A y \in S : y <= x

\* the least element of a non-empty set of numbers
Least(S) == CHOOSE x \in S : \A y \in S : x <= y

\* the key the PathParser of this parse returns for header line h: the base
\* path comes from the first header line of ls
HeaderKey(ls, h) ==
    LET h1    == Least(HeadersBefore(ls, h + 1))
        first == PathParserParse(None, Unset, HeaderPath(Trimmed(ls, h1)))
    IN  IF h = h1 THEN first.ret
        ELSE PathParserParse(first.cls, first.inst, HeaderPath(Trimmed(ls, h))).ret

\* the key of the most recent header line before line k
CurrentKey(ls, k) == HeaderKey(ls, Greatest(HeadersBefore(ls, k)))

RECURSIVE FilesOf(_, _, _)
\* the filenames of the entry lines before line k whose most recent header
\* line gave the key, in input order
FilesOf(ls, key, k) ==
    IF k <= 1 THEN <<>>
    ELSE LET before == FilesOf(ls, key, k - 1)
         IN  IF /\ IsEntryAt(ls, k - 1)
                /\ HeadersBefore(ls, k - 1) # {}
                /\ CurrentKey(ls, k - 1) = key
             THEN Append(before, FileName(Trimmed(ls, k - 1)))
             ELSE before

RECURSIVE FirstSeen(_, _)
\* the keys of the header lines before line k, each once, in first-seen order
FirstSeen(ls, k) ==
    IF k <= 1 THEN <<>>
    ELSE LET before == FirstSeen(ls, k - 1)
         IN  IF IsHeaderAt(ls, k - 1) /\ ~InList(HeaderKey(ls, k - 1), before)
             THEN Append(before, HeaderKey(ls, k - 1))
             ELSE before

\* the lines of ls that are not blank
NonBlank(ls) == SelectSeq(ls, LAMBDA l : RStripSpace(l) # <<>>)

\* the non-blank entry lines with no header line before them
EntriesBeforeHeader(ls) ==
    {k \in 1..Len(ls) : IsEntryAt(ls, k) /\ ~IsBlankAt(ls, k) /\ HeadersBefore(ls, k) = {}}

\* C3: when an entry line (not blank, no header, not starting with total)
\* comes before every header line, the parse ends in an error: the loop never
\* gets past that line, nothing is filed under any directory and no mapping
\* is returned.
C3_EntryBeforeHeaderFails ==
    EntriesBeforeHeader(lines) # {} =>
        /\ pc # "parse_ret"
        /\ parsed = None
        /\ file_content = <<>>
        /\ pos <= Least(EntriesBeforeHeader(lines))
        /\ pc = "raised" => error = "KeyError"
        /\ (pc = "parse_loop" /\ pos = Least(EntriesBeforeHeader(lines))) =>
               ~HasKey(file_content, folder_path)

\* the parse has raised at an entry line that follows a total line and no header
C3_Witness ==
    /\ pc = "raised"
    /\ error = "KeyError"
    /\ pos = 2
    /\ EntriesBeforeHeader(lines) # {}
    /\ pos = Least(EntriesBeforeHeader(lines))

\* C4: a line that is empty once right-trimmed is a no-op at every position:
\* the parse ends as it ends on the input without its blank lines, with the
\* same mapping or with an error where that one ends in an error.
C4_BlankLineNoOp ==
    /\ pc = "parse_ret" =>
           /\ ParseAlone(NonBlank(lines)).error = NoError
           /\ parsed = ParseAlone(NonBlank(lines)).file_content
    /\ pc = "raised" => ParseAlone(NonBlank(lines)).error # NoError

\* C5: each line the else branch takes is filed under the key of the most
\* recently processed header line and under no other key: the list of every
\* key is the filenames of those lines, in input order, duplicates kept.
C5_EntryGoesToCurrentHeader ==
    pc \in {"parse_loop", "parse_ret", "raised"} =>
        \A k \in 1..Len(file_content) :
            file_content[k].val = FilesOf(lines, file_content[k].key, pos)

\* the parse has returned two keys, each with the entry line that followed
\* its own header line
C5_Witness ==
    /\ pc = "parse_ret"
    /\ Len(parsed) = 2
    /\ Len(parsed[1].val) = 1
    /\ Len(parsed[2].val) = 1
    /\ parsed[1].val # parsed[2].val

\* this pass of the loop takes a header line
HeaderPass == pc = "parse_loop" /\ pos <= Len(lines) /\ IsHeaderLine(Line) /\ pos' = pos + 1

\* C6: the keys of the mapping are the keys of the header lines seen, each
\* once, in first-seen order; a header line whose key is registered already
\* adds no key and leaves every list as it is, and its key is the current
\* directory again.
C6_KeysFirstSeenOrder ==
    /\ [](pc \in {"parse_loop", "parse_ret"} => Keys(file_content) = FirstSeen(lines, pos))
    /\ [](pc = "parse_ret" => Keys(parsed) = FirstSeen(lines, Len(lines) + 1))
    /\ [][HeaderPass /\ HasKey(file_content, HeaderKey(lines, pos)) =>
             /\ file_content' = file_content
             /\ folder_path' = HeaderKey(lines, pos)]_vars

\* the header line just taken named a key registered before, whose list is
\* not empty, while another key is registered too
C6_Witness ==
    /\ pc = "parse_loop"
    /\ pos > 1
    /\ IsHeaderAt(lines, pos - 1)
    /\ Len(file_content) = 2
    /\ HasKey(file_content, folder_path)
    /\ Get(file_content, folder_path) # <<>>
    /\ Cardinality(HeadersBefore(lines, pos)) = 3

\* C8: a header path shorter than len(base path) + 1, the base path set by an
\* earlier header, makes PathParser.parse and the parse around it fail.
C8_ShortPathFails ==
    (ncalls >= 2 /\ Len(call_path) < Len(base_path) + 1) =>
        /\ error # NoError
        /\ pc = "raised"

-----------------------------------------------------------------------------
(* Comparer.find_mismatched_left: what the loops are said to do *)

\* s without one leading separator
StripOne(s) == IF s # <<>> /\ s[1] = "/" THEN Drop(s, 1) ELSE s

\* the pair (a, b) of key indexes has been through the inner loop
Visited(a, b) == a < li \/ (a = li /\ b < ri)

\* equal case-insensitively once one leading separator is off each
MatchOneStripped(left_key, right_key) ==
    Lower(StripOne(left_key)) = Lower(StripOne(right_key))

\* equal case-insensitively once every leading separator is off each
MatchAllStripped(left_key, right_key) ==
    Lower(LStripCh(left_key, "/")) = Lower(LStripCh(right_key, "/"))

RECURSIVE ClaimedFiles(_, _, _, _)
\* "{leftKey}/{filename}", one leading separator off leftKey, for the filenames
\* from index k on that are no member of the right list
ClaimedFiles(left_key, left_filenames, right_filenames, k) ==
    IF k > Len(left_filenames) THEN <<>>
    ELSE (IF InList(left_filenames[k], right_filenames) THEN <<>>
          ELSE <<StripOne(left_key) \o <<"/">> \o left_filenames[k]>>)
         \o ClaimedFiles(left_key, left_filenames, right_filenames, k + 1)

RECURSIVE ClaimedFrom(_, _, _, _)
\* the walk over l's keys and, for each, over r's keys, from the pair (a, b) on
ClaimedFrom(l, r, a, b) ==
    IF a > Len(l) THEN <<>>
    ELSE IF b > Len(r) THEN ClaimedFrom(l, r, a + 1, 1)
    ELSE (IF MatchOneStripped(l[a].key, r[b].key)
          THEN ClaimedFiles(l[a].key, l[a].val, r[b].val, 1) ELSE <<>>)
         \o ClaimedFrom(l, r, a, b + 1)

EndToEndMissing == <<<<"s", "u", "b", "1", "/", "y", ".", "t", "x", "t">>>>

\* C1: for any two listings find_mismatched_left returns the sequence of the
\* walk over left's keys and, for each, right's keys, in insertion order, with
\* "{leftKey}/{filename}" for every filename of a matched left list that is no
\* member of the right list; for the end-to-end listings that is
\* ["sub1/y.txt"] left-to-right and [] right-to-left.
C1_ExactSequence ==
    pc \notin {"diff_call", "diff_loop"} =>
        /\ pc = "diff_ret"
        /\ result = ClaimedFrom(left, right, 1, 1)
        /\ (left = EndToEndLeft /\ right = EndToEndRight) => result = EndToEndMissing
        /\ (left = EndToEndRight /\ right = EndToEndLeft) => result = <<>>

\* C2: find_mismatched_left fails for no two listings, the empty listing
\* included: it ends by returning a sequence.
C2_NeverFails ==
    /\ error = NoError
    /\ pc \notin {"diff_call", "diff_loop"} => pc = "diff_ret" /\ result # None

\* C10 as amended: a left key and a right key are matched exactly when they
\* are equal case-insensitively after stripping every leading separator from
\* each.
C10_MatchAllLeadingSeparators ==
    pc \in {"diff_loop", "diff_ret"} =>
        \A a \in 1..Len(left), b \in 1..Len(right) :
            Visited(a, b) =>
                (<<a, b>> \in matched_pairs <=> MatchAllStripped(left[a].key, right[b].key))

\* C10: a left key and a right key are matched exactly when they are equal
\* case-insensitively after stripping one leading separator from each.
C10_MatchOneLeadingSeparator ==
    pc \in {"diff_loop", "diff_ret"} =>
        \A a \in 1..Len(left), b \in 1..Len(right) :
            Visited(a, b) =>
                (<<a, b>> \in matched_pairs <=> MatchOneStripped(left[a].key, right[b].key))

\* the call has returned with "//a" matched to "A" and "b" matched to nothing
C10_Witness ==
    /\ pc = "diff_ret"
    /\ \E p \in matched_pairs :
           left[p[1]].key = <<"/", "/", "a">> /\ right[p[2]].key = <<"A">>
    /\ \E a \in 1..Len(left) :
           left[a].key = <<"b">> /\ \A b \in 1..Len(right) : <<a, b>> \notin matched_pairs

-----------------------------------------------------------------------------
(* Comparer.compare: the two parses *)

\* the base path a new PathParser takes from the first header line of ls
OwnBasePath(ls) ==
    LStripCh(SplitHead(HeaderPath(Trimmed(ls, Least(HeadersBefore(ls, Len(ls) + 1))))), "/")

\* C9: the two parses share no normalizer state: whatever was parsed before,
\* Comparer.parse returns for a line sequence the mapping it returns for it
\* when run alone, and the base path in use is the one derived from the first
\* header line of the sequence being parsed.
C9_ParsesShareNothing ==
    /\ pc = "parse_ret" => parsed = ParseAlone(lines).file_content
    /\ \A k \in 1..Len(files_contents) :
           files_contents[k] = ParseAlone(files_lines[k]).file_content
    /\ (pc \in {"parse_loop", "parse_ret"} /\ ncalls > 0) =>
           ReadBasePath(cls_base_path, base_path) = OwnBasePath(lines)

\* both files are parsed, the first with the base path "r" and the second
\* with the base path "./r", and each mapping holds a key
C9_Witness ==
    /\ pc = "compare_parse"
    /\ Len(files_contents) = 2
    /\ files_contents[1] # <<>>
    /\ files_contents[2] # <<>>
    /\ files_lines[1][1] = HeaderAbs
    /\ files_lines[2][1] = HeaderRA
    /\ OwnBasePath(files_lines[1]) # OwnBasePath(files_lines[2])

-----------------------------------------------------------------------------
(* Comparer.find_mismatched_left: what each left key contributes *)

\* a key of right is matched with left's key a by the if of the loops
HasCounterpart(a) == \E b \in 1..Len(right) : MatchAllStripped(left[a].key, right[b].key)

\* the line begins with left's key a, its leading separators off, and "/"
BeginsWithKey(line, a) == StartsWith(line, LStripCh(left[a].key, "/") \o <<"/">>)

\* C11: a left key with no counterpart among right's keys (none equal to it
\* case-insensitively, leading separators aside) contributes no line: every
\* line emitted begins with a left key that has a matching right key, and none
\* begins with a left key that has no match.
C11_UnmatchedContributesNothing ==
    pc \in {"diff_loop", "diff_ret"} =>
        /\ \A k \in 1..Len(mismatched) :
               \E a \in 1..Len(left) : HasCounterpart(a) /\ BeginsWithKey(mismatched[k], a)
        /\ \A a \in 1..Len(left) :
               ~HasCounterpart(a) =>
                   \A k \in 1..Len(mismatched) : ~BeginsWithKey(mismatched[k], a)

\* the call has returned lines for a matched left key, after the walk went
\* through the key "b" that holds filenames and matches no right key
C11_Witness ==
    /\ pc = "diff_ret"
    /\ result # <<>>
    /\ Len(left) = 2
    /\ left[1].key = <<"b">>
    /\ left[1].val # <<>>
    /\ ~HasCounterpart(1)
    /\ HasCounterpart(2)

\* the line the report holds for a filename of a left key
ReportLine(left_key, left_filename) ==
    LStripCh(left_key, "/") \o <<"/">> \o left_filename \o <<"\n">>

\* how many elements of xs are x
Count(xs, x) == Cardinality({k \in 1..Len(xs) : xs[k] = x})

\* this step is the inner loop's body for the pair (li, ri)
PairPass == pc = "diff_loop" /\ li <= Len(left) /\ pb_increment' = pb_increment + 1

\* the lines this step appends to mismatched
Appended == Drop(mismatched', Len(mismatched))

\* C12: duplicates are not collapsed: for a matched pair, a filename that is
\* k times in left's list and not in right's list has its line appended
\* exactly k times, and a filename of right's list has none.
C12_DuplicatesKept ==
    [][(PairPass /\ MatchAllStripped(left[li].key, right[ri].key)) =>
           \A n \in 1..Len(left[li].val) :
               LET f == left[li].val[n]
               IN  Count(Appended, ReportLine(left[li].key, f)) =
                       IF InList(f, right[ri].val) THEN 0 ELSE Count(left[li].val, f)]_vars

\* one matched pair: left lists "x" twice, right's list is empty, and the
\* result is the line of "x" twice
C12_Witness ==
    /\ pc = "diff_ret"
    /\ Len(left) = 1
    /\ Len(right) = 1
    /\ MatchAllStripped(left[1].key, right[1].key)
    /\ left[1].val = <<<<"x">>, <<"x">>>>
    /\ right[1].val = <<>>
    /\ result = <<ReportLine(left[1].key, <<"x">>), ReportLine(left[1].key, <<"x">>)>>

RECURSIVE MissingLines(_, _, _, _)
\* the lines of left's filenames from index n on that are not in right's list
MissingLines(left_key, left_filenames, right_filenames, n) ==
    IF n > Len(left_filenames) THEN <<>>
    ELSE (IF InList(left_filenames[n], right_filenames) THEN <<>>
          ELSE <<ReportLine(left_key, left_filenames[n])>>)
         \o MissingLines(left_key, left_filenames, right_filenames, n + 1)

RECURSIVE WalkFrom(_, _, _, _)
\* left's list evaluated against the list of every matching right key, one
\* match after the other in right's order, from the pair (a, b) on
WalkFrom(l, r, a, b) ==
    IF a > Len(l) THEN <<>>
    ELSE IF b > Len(r) THEN WalkFrom(l, r, a + 1, 1)
    ELSE (IF MatchAllStripped(l[a].key, r[b].key)
          THEN MissingLines(l[a].key, l[a].val, r[b].val, 1) ELSE <<>>)
         \o WalkFrom(l, r, a, b + 1)

\* C14: a left key that matches several right keys has its list evaluated
\* against the list of each of them on its own, in right's insertion order,
\* and the results are concatenated as they come: nothing is deduplicated.
C14_EveryMatchEvaluated ==
    pc = "diff_ret" => result = WalkFrom(left, right, 1, 1)

\* the left key matches both right keys, its filename is in neither list, and
\* the result holds the line twice
C14_Witness ==
    /\ pc = "diff_ret"
    /\ Len(left) = 1
    /\ Len(right) = 2
    /\ matched_pairs = {<<1, 1>>, <<1, 2>>}
    /\ Len(left[1].val) = 1
    /\ result = <<ReportLine(left[1].key, left[1].val[1]),
                  ReportLine(left[1].key, left[1].val[1])>>

-----------------------------------------------------------------------------
(* PathParser: the base path the first call sets *)

\* the path up to its last separator, the separator left out
Parent(path) == Take(path, RFind1(path, "/") - 1)

\* the path after its last separator
LastSegment(path) == Drop(path, RFind1(path, "/"))

\* a directory followed by one separator and a final segment
HasParentAndSegment(path) ==
    /\ RFind1(path, "/") > 1
    /\ LastSegment(path) # <<>>
    /\ ~EndsWith(Parent(path), <<"/">>)

\* C13: the first call sets the base path to its argument without the last
\* segment and without one leading separator, no more, and returns the final
\* segment of the argument, with or without one separator before it.
C13_FirstCallOneSeparator ==
    (pc = "path" /\ ncalls = 1 /\ HasParentAndSegment(first_path)) =>
        /\ base_path = StripOne(Parent(first_path))
        /\ call_ret \in {LastSegment(first_path), <<"/">> \o LastSegment(first_path)}

-----------------------------------------------------------------------------
(* Comparer.compare: when the reports are written *)

\* C15: when the parse of either input fails no comparison is run and no
\* report is written; a report is written only once both inputs are parsed and
\* both find_mismatched_left calls have returned, the report of the first
\* input before the report of the second.
C15_ReportsAfterBothComparisons ==
    /\ error = "KeyError" =>
           /\ written = <<>>
           /\ left_mismatched = None
           /\ right_mismatched = None
           /\ result = None
           /\ li = 0
    /\ written # <<>> =>
           /\ Len(files_contents) = Len(files_lines)
           /\ left_mismatched # None
           /\ right_mismatched # None
           /\ Len(written) <= 2
           /\ written[1] = [file |-> 1, content |-> left_mismatched]
           /\ Len(written) = 2 => written[2] = [file |-> 2, content |-> right_mismatched]

\* the first input is parsed, the parse of the second one has failed
C15_Witness ==
    /\ pc = "raised"
    /\ error = "KeyError"
    /\ i = 2
    /\ Len(files_contents) = 1
    /\ files_contents[1] # <<>>
    /\ written = <<>>

-----------------------------------------------------------------------------
(* Comparer: the paths of an instance *)

\* C16: whatever constructions came before, failed ones included, the paths
\* of a constructed Comparer are the two paths its own constructor was given,
\* and compare() reads those two files and names its reports after them.
C16_ComparerOwnsItsPaths ==
    /\ \A k \in 1..Len(comparers) :
           comparers[k].ok => comparer_paths = comparers[k].args
    /\ compare_self # 0 =>
           /\ compare_read = comparers[compare_self].args
           /\ compare_names = comparers[compare_self].args

====
